---- MODULE Spec2Model ----
(***************************************************************************)
(* Model of the gender-stereotype text analyzer (src/src/main.py).         *)
(*                                                                         *)
(* Strings of the program are written in ASCII:                            *)
(*   "he" = U+4ED6, "she" = U+5979 (the keywords of the worked example),   *)
(*   "hao" = U+597D, "huai" = U+574F (two adjectives), "de" = U+7684,      *)
(*   and English glosses for the other hardcoded keywords and stopwords.   *)
(* Token positions are 0-based as in the program; a TLA+ sequence is       *)
(* 1-based, so token j of the program is words[j + 1].                     *)
(***************************************************************************)
EXTENDS Integers, Sequences, FiniteSets

VARIABLES
    self,              \* the analyzer instance under analysis: its six settings
    words,             \* analyze: the tagged tokens returned by preprocess_text
    i,                 \* analyze: position of the loop of line 241
    male_adjectives,   \* analyze: list built at line 244
    female_adjectives, \* analyze: list built at line 247
    scans,             \* every window scan made so far: <<keyword position, indices read>>
    result,            \* analyze: the returned pair of Counters, or NoResult
    apc,               \* analyze: "loop" | "done" | "idle"
    args,              \* main: the parsed command line (config given?, --setup)
    fs_cfile,          \* the file named by -c
    fs_default,        \* config.json beside the program
    input,             \* the input path: missing, a file, or a directory listing
    env,               \* what the run cannot decide: font_ok, save_ok
    stdin,             \* the three lines typed to first_time_setup, split
    pc,                \* main: "start" | "configured" | "dispatch" | "dir_loop" | "exit" | "idle"
    main_analyzer,     \* the analyzer main builds at line 433
    setup_ran,         \* first_time_setup was run
    text_files,        \* analyze_directory: the glob result
    file_i,            \* analyze_directory: position of the loop of line 399
    outputs,           \* the files written by visualize
    dirs,              \* the directories made by visualize
    attempted,         \* the input files analyze_file was called for
    done_files,        \* the input files analyze_file returned for
    out_dir,           \* output_dir of the last analyze_file call
    exit_code          \* the process status: "none" (running) | "zero" | "nonzero"

avars == <<self, words, i, male_adjectives, female_adjectives, scans, result, apc>>

mvars == <<args, fs_cfile, fs_default, input, env, stdin, pc, main_analyzer,
           setup_ran, text_files, file_i, outputs, dirs, attempted, done_files,
           out_dir, exit_code>>

vars == <<avars, mvars>>

----------------------------------------------------------------------------
(* Bounds of the model *)

MaxLen == 4
MaxRadius == 2
MaxFiles == 2
\* The interpreter's recursion limit and the frames logger.error needs, scaled
\* down (1000 and a handful in CPython).
RecursionLimit == 6
LogFrames == 2

----------------------------------------------------------------------------
(* Values *)

Max(a, b) == IF a >= b THEN a ELSE b
Min(a, b) == IF a <= b THEN a ELSE b
Range(s) == {s[k] : k \in DOMAIN s}

\* JSON / Python values that a settings field may hold.
JInt(n) == [t |-> "int", v |-> n]
JStr(s) == [t |-> "str", v |-> s]
JList(s) == [t |-> "list", v |-> s]
JNull == [t |-> "null", v |-> 0]

Token(w, p) == [word |-> w, pos |-> p]

NoResult == [male |-> "none", female |-> "none"]

----------------------------------------------------------------------------
(* extract_adjectives and analyze *)

\* Python's range(a, b) as a sequence.
PyRange(a, b) == [k \in 1..(IF b > a THEN b - a ELSE 0) |-> a + k - 1]

\* Python's words[j]: a negative j counts from the end; outside [-n, n) it
\* raises IndexError.
PyIndexOk(ws, j) == -Len(ws) <= j /\ j < Len(ws)
PyIndex(ws, j) == IF j >= 0 THEN ws[j + 1] ELSE ws[Len(ws) + j + 1]

\* A window that scans only to the right of the keyword.
WindowIndicesRightOnly(p, n, r) == PyRange(p + 1, Min(n, p + r + 1))

\* A window whose left end is not clamped at 0.
WindowIndicesNoClamp(p, n, r) ==
    PyRange(p - r, p) \o PyRange(p + 1, Min(n, p + r + 1))

\* The indices j of the two inner loops, in the order they are read.
WindowIndices(p, n, r) ==
    PyRange(Max(0, p - r), p) \o PyRange(p + 1, Min(n, p + r + 1))

RECURSIVE OccurrencesFrom(_, _, _)
OccurrencesFrom(ws, target, p) ==
    IF p >= Len(ws) THEN <<>>
    ELSE (IF ws[p + 1].word = target THEN <<p>> ELSE <<>>)
         \o OccurrencesFrom(ws, target, p + 1)

\* The positions where the outer loop of extract_adjectives finds target_word.
Occurrences(ws, target) == OccurrencesFrom(ws, target, 0)

RECURSIVE ConcatAll(_)
ConcatAll(ss) == IF ss = <<>> THEN <<>> ELSE Head(ss) \o ConcatAll(Tail(ss))

\* The window scans of one call of extract_adjectives: one per occurrence of
\* target_word in the whole token list.
ExtractScans(ws, target, s) ==
    LET occ == Occurrences(ws, target)
    IN  IF s.window_size.t # "int" THEN <<>>
        ELSE [k \in DOMAIN occ |->
                 <<occ[k], WindowIndices(occ[k], Len(ws), s.window_size.v)>>]

\* The adjectives one window contributes.
WindowAdjectives(ws, idx, s) ==
    LET hit(j) == PyIndex(ws, j).pos \in s.adjective_pos_tags
        sel == SelectSeq(idx, hit)
    IN  [k \in DOMAIN sel |-> PyIndex(ws, sel[k]).word]

\* extract_adjectives(words, target_word): any exception (a window size that is
\* no number, an index out of range) is caught and the result is [].
ExtractAdjectives(ws, target, s) ==
    LET sc == ExtractScans(ws, target, s)
    IN  IF Occurrences(ws, target) = <<>> THEN <<>>
        ELSE IF s.window_size.t # "int" THEN <<>>
        ELSE IF \E k \in DOMAIN sc : \E m \in DOMAIN sc[k][2] :
                    ~PyIndexOk(ws, sc[k][2][m])
             THEN <<>>
        ELSE ConcatAll([k \in DOMAIN sc |-> WindowAdjectives(ws, sc[k][2], s)])

\* One iteration of the loop of analyze (lines 241-247) at position p.
AnalyzeIter(acc, ws, p, s) ==
    LET w == ws[p + 1].word
    IN  IF w \in s.male_keywords
        THEN [acc EXCEPT !.male = @ \o ExtractAdjectives(ws, w, s),
                         !.scans = @ \o ExtractScans(ws, w, s)]
        ELSE IF w \in s.female_keywords
        THEN [acc EXCEPT !.female = @ \o ExtractAdjectives(ws, w, s),
                         !.scans = @ \o ExtractScans(ws, w, s)]
        ELSE acc

\* collections.Counter(list): surface form -> number of occurrences.
Counter(list) ==
    [w \in Range(list) |-> Cardinality({k \in DOMAIN list : list[k] = w})]

RECURSIVE AnalyzeFrom(_, _, _, _)
AnalyzeFrom(acc, ws, p, s) ==
    IF p >= Len(ws) THEN acc
    ELSE AnalyzeFrom(AnalyzeIter(acc, ws, p, s), ws, p + 1, s)

\* analyze(text) on the tokens the tagger returned.
AnalyzeText(ws, s) ==
    LET acc == AnalyzeFrom([male |-> <<>>, female |-> <<>>, scans |-> <<>>], ws, 0, s)
    IN  [male |-> Counter(acc.male), female |-> Counter(acc.female)]

----------------------------------------------------------------------------
(* Settings files, load_config, load_default_config, save_config *)

\* A settings file: missing, not JSON ("garbage"), or JSON holding val.
File(kind, val) == [kind |-> kind, val |-> val]
JObj(rec) == [t |-> "obj", v |-> rec]

\* The fields of a fresh instance (lines 92-97).
InitSettings ==
    [male_keywords |-> {}, female_keywords |-> {}, stopwords |-> {},
     adjective_pos_tags |-> {}, window_size |-> JInt(3), font_path |-> JNull]

\* The hardcoded defaults (lines 127-133).
HardcodedDefaults ==
    [male_keywords |-> {"he", "father", "son", "brother", "man", "mister", "boy"},
     female_keywords |-> {"she", "mother", "daughter", "sister", "woman", "lady", "girl"},
     stopwords |-> {"de", "le", "and", "is", "jiu", "dou", "er", "ji", "yu",
                    "zhe", "or", "one", "without", "this", "that", "thus", "so"},
     adjective_pos_tags |-> {"a", "ad", "an"},
     window_size |-> JInt(3),
     font_path |-> JStr("simhei.ttf")]

\* config.get(key, default) on a JSON object.
DictGet(obj, key, default) == IF key \in DOMAIN obj.v THEN obj.v[key] ELSE default

\* set(x): an array gives the set of its items, a number or null raises
\* TypeError (the files of the model give these keys nothing else).
PySetOk(j) == CASE j.t \in {"list", "list_of_set"} -> TRUE
                [] j.t \in {"int", "null"} -> FALSE
PySet(j) == IF j.t = "list" THEN Range(j.v) ELSE j.v

\* The four keys read through set(...), in the order of lines 109-112.
SetKeys == <<"male_keywords", "female_keywords", "stopwords", "adjective_pos_tags">>

RECURSIVE AssignSets(_, _, _)
AssignSets(s, obj, n) ==
    IF n > Len(SetKeys)
    THEN [ok |-> TRUE, s |-> s]
    ELSE LET val == DictGet(obj, SetKeys[n], JList(<<>>))
         IN  IF PySetOk(val)
             THEN AssignSets([s EXCEPT ![SetKeys[n]] = PySet(val)], obj, n + 1)
             ELSE [ok |-> FALSE, s |-> s]

\* The try block of load_config (lines 107-114): the fields are assigned one
\* after the other, so a failure leaves the earlier ones assigned.
TryLoad(file, s) ==
    IF file.kind # "json" THEN [ok |-> FALSE, s |-> s]
    ELSE IF file.val.t # "obj" THEN [ok |-> FALSE, s |-> s]
    ELSE LET r == AssignSets(s, file.val, 1)
         IN  IF ~r.ok THEN r
             ELSE [ok |-> TRUE,
                   s |-> [r.s EXCEPT
                            !.window_size = DictGet(file.val, "window_size", JInt(3)),
                            !.font_path = DictGet(file.val, "font_path", JStr("simhei.ttf"))]]

\* A handler of load_config that logs and returns without any fallback.
OnLoadFailureNoFallback(s, depth, fallback) == [exc |-> FALSE, s |-> s]

\* The except block of load_config (lines 115-117): log, then fall back.
\* logger.error raises RecursionError when fewer than LogFrames frames are left.
OnLoadFailure(s, depth, fallback) ==
    IF depth + LogFrames > RecursionLimit
    THEN [exc |-> TRUE, s |-> s]
    ELSE fallback

RECURSIVE LoadConfig(_, _, _, _)
RECURSIVE LoadDefaultConfig(_, _, _)

\* load_config(config_file) running in frame number depth; dflt is config.json
\* beside the program. The result is the fields and whether an exception
\* leaves the call.
LoadConfig(s, file, dflt, depth) ==
    LET r == TryLoad(file, s)
    IN  IF r.ok THEN [exc |-> FALSE, s |-> r.s]
        ELSE OnLoadFailure(r.s, depth, LoadDefaultConfig(r.s, dflt, depth + 1))

\* load_default_config() (lines 119-133): load_config catches its own failure
\* and calls back, so the except block is entered only by the RecursionError
\* that ends the mutual recursion.
LoadDefaultConfig(s, dflt, depth) ==
    LET r == IF depth + 1 > RecursionLimit
             THEN [exc |-> TRUE, s |-> s]
             ELSE LoadConfig(s, dflt, dflt, depth + 1)
    IN  IF ~r.exc THEN r
        ELSE IF depth + LogFrames > RecursionLimit
        THEN [exc |-> TRUE, s |-> r.s]
        ELSE [exc |-> FALSE, s |-> HardcodedDefaults]

\* GenderStereotypeAnalyzer(config_file) (lines 90-102); the constructor is
\* frame 1.
Construct(given, cfile, dflt) ==
    IF given THEN LoadConfig(InitSettings, cfile, dflt, 2)
    ELSE LoadDefaultConfig(InitSettings, dflt, 2)

\* list(a_set) as save_config writes it (lines 139-142): an array of the items
\* of the set in an order that differs from run to run (string hashing). The
\* value stands for that array in whichever order the run produced; it keeps
\* the items and leaves the order open, and the only reader, set(...) in
\* load_config, does not depend on it.
JListOfSet(S) == [t |-> "list_of_set", v |-> S]

\* The JSON text save_config writes (lines 138-147).
SavedConfig(s) ==
    File("json", JObj(
        [male_keywords |-> JListOfSet(s.male_keywords),
         female_keywords |-> JListOfSet(s.female_keywords),
         stopwords |-> JListOfSet(s.stopwords),
         adjective_pos_tags |-> JListOfSet(s.adjective_pos_tags),
         window_size |-> s.window_size,
         font_path |-> s.font_path]))

\* The fields after first_time_setup has read its three lines (lines 159-175).
SetupSettings(s, typed) ==
    [s EXCEPT !.male_keywords = @ \cup Range(typed.male),
              !.female_keywords = @ \cup Range(typed.female),
              !.stopwords = @ \cup Range(typed.stop)]

----------------------------------------------------------------------------
(* Paths, visualize, analyze_file *)

\* A file or directory name is the sequence of its characters (a name whose
\* characters do not matter is one symbol); a path is the sequence of its
\* components.
OutputName == <<"output">>
InputDirName == <<"data">>
DotTxt == <<".", "t", "x", "t">>

Last(q) == q[Len(q)]

\* os.path.basename and os.path.join on such paths.
Basename(path) == Last(path)
PathJoin(dir, name) == Append(dir, name)

LastDot(name) ==
    LET dots == {n \in DOMAIN name : name[n] = "."}
    IN  IF dots = {} THEN 0 ELSE CHOOSE n \in dots : \A m \in dots : m <= n

FirstDot(name) ==
    LET dots == {n \in DOMAIN name : name[n] = "."}
    IN  IF dots = {} THEN 0 ELSE CHOOSE n \in dots : \A m \in dots : n <= m

\* A stem that ends at the first dot of the name.
SplitExtRootFirstDot(name) ==
    IF FirstDot(name) <= 1 THEN name ELSE SubSeq(name, 1, FirstDot(name) - 1)

\* os.path.splitext(name)[0]: the name up to its last dot, unless only dots
\* come before that dot.
SplitExtRoot(name) ==
    LET d == LastDot(name)
    IN  IF d = 0 THEN name
        ELSE IF \E n \in 1..(d - 1) : name[n] # "." THEN SubSeq(name, 1, d - 1)
        ELSE name

\* fnmatch of a directory entry against '*.txt' as glob does it: names that
\* start with a dot are skipped.
GlobMatch(name) ==
    /\ Len(name) >= Len(DotTxt)
    /\ SubSeq(name, Len(name) - Len(DotTxt) + 1, Len(name)) = DotTxt
    /\ name[1] # "."

\* glob.glob(os.path.join(input_dir, '*.txt')) on a directory listing.
GlobTxt(entries) == SelectSeq(entries, LAMBDA e : GlobMatch(e.name))

\* The adjectives of one table only.
AllWordsMaleOnly(male, female) == DOMAIN male

\* set(male_words + female_words) (line 313).
AllWords(male, female) == DOMAIN male \cup DOMAIN female

\* list(a_set): any order of the items.
Orders(S) == {q \in [1..Cardinality(S) -> S] : Range(q) = S}

\* counter.get(word, 0)
CounterGet(c, w) == IF w \in DOMAIN c THEN c[w] ELSE 0

\* WordCloud(font_path=...).generate_from_frequencies(counter): the renderer
\* raises ValueError for a table without words, and fails when the font cannot
\* be used.
WordCloudOk(counter, e) == DOMAIN counter # {} /\ e.font_ok

OutFile(src, dir, name, data) == [src |-> src, dir |-> dir, name |-> name, data |-> data]

\* os.makedirs(output_dir, exist_ok=True) (line 266): the directory and every
\* missing parent of it.
MakeDirs(ds, path) == ds \cup {SubSeq(path, 1, n) : n \in 1..Len(path)}

\* Writing a file replaces what the path held.
WriteFile(outs, f) == {o \in outs : ~(o.dir = f.dir /\ o.name = f.name)} \cup {f}

\* The columns of the chart and of the CSV over all_words (lines 319-320, 333-337).
Rows(all_words, male, female) ==
    [n \in DOMAIN all_words |->
        <<all_words[n], CounterGet(male, all_words[n]), CounterGet(female, all_words[n])>>]

\* visualize(male_counter, female_counter, output_dir) (lines 262-345), with
\* all_words the order list(set(...)) produced. Everything after the first
\* exception is skipped: the except block only logs.
Visualize(male, female, output_dir, src, all_words, outs, ds, e) ==
    IF ~WordCloudOk(male, e) \/ ~WordCloudOk(female, e)
    THEN [dirs |-> MakeDirs(ds, output_dir), outputs |-> outs]
    ELSE LET o1 == WriteFile(outs, OutFile(src, output_dir, "wordcloud.png", <<>>))
             o2 == IF all_words # <<>>
                   THEN WriteFile(o1, OutFile(src, output_dir, "comparison.png",
                                              Rows(all_words, male, female)))
                   ELSE o1
             o3 == WriteFile(o2, OutFile(src, output_dir, "report.csv",
                                         Rows(all_words, male, female)))
         IN  [dirs |-> MakeDirs(ds, output_dir), outputs |-> o3]

\* preprocess_text: a failure of the tagger gives the empty token list.
PreprocessText(entry) == IF entry.tagger_ok THEN entry.tokens ELSE <<>>

\* analyze_file(input_file, output_dir, config_file) (lines 347-378) for the
\* directory entry `entry`; ok_pc, ok_k and ok_code are where the caller goes
\* on when the call returns. Any exception ends the process by sys.exit(1).
AnalyzeFile(entry, output_dir, ok_pc, ok_k, ok_code) ==
    LET c == Construct(args.config, fs_cfile, fs_default)
    IN  /\ attempted' = Append(attempted, entry.name)
        /\ out_dir' = output_dir
        /\ IF c.exc \/ ~entry.readable
           THEN /\ self' = (IF c.exc THEN self ELSE c.s)
                /\ result' = NoResult
                /\ pc' = "exit"
                /\ exit_code' = "nonzero"
                /\ UNCHANGED <<file_i, outputs, dirs, done_files>>
           ELSE LET res == AnalyzeText(PreprocessText(entry), c.s)
                IN  \E all_words \in Orders(AllWords(res.male, res.female)) :
                      LET v == Visualize(res.male, res.female, output_dir,
                                         entry.name, all_words, outputs, dirs, env)
                      IN  /\ self' = c.s
                          /\ result' = res
                          /\ outputs' = v.outputs
                          /\ dirs' = v.dirs
                          /\ done_files' = Append(done_files, entry.name)
                          /\ pc' = ok_pc
                          /\ file_i' = ok_k
                          /\ exit_code' = ok_code

----------------------------------------------------------------------------
(* main *)

\* Line 428: the input path does not exist.
MainMissingInput ==
    /\ pc = "start"
    /\ input.kind = "missing"
    /\ pc' = "exit"
    /\ exit_code' = "nonzero"
    /\ UNCHANGED <<avars, args, fs_cfile, fs_default, input, env, stdin,
                   main_analyzer, setup_ran, text_files, file_i, outputs, dirs,
                   attempted, done_files, out_dir>>

\* Line 433: main builds its analyzer. An exception leaving the constructor
\* is not caught in main.
MainConstruct ==
    /\ pc = "start"
    /\ input.kind # "missing"
    /\ LET c == Construct(args.config, fs_cfile, fs_default)
       IN  IF c.exc
           THEN /\ pc' = "exit" /\ exit_code' = "nonzero" /\ UNCHANGED main_analyzer
           ELSE /\ pc' = "configured" /\ main_analyzer' = c.s /\ UNCHANGED exit_code
    /\ UNCHANGED <<avars, args, fs_cfile, fs_default, input, env, stdin,
                   setup_ran, text_files, file_i, outputs, dirs, attempted,
                   done_files, out_dir>>

\* Lines 436-438 with first_time_setup (lines 151-181): the typed words are
\* added and the fields are saved to config.json beside the program; a failed
\* save is logged and leaves that file as it was.
FirstTimeSetup ==
    /\ pc = "configured"
    /\ args.setup \/ fs_default.kind = "missing"
    /\ main_analyzer' = SetupSettings(main_analyzer, stdin)
    /\ fs_default' = (IF env.save_ok
                      THEN SavedConfig(SetupSettings(main_analyzer, stdin))
                      ELSE fs_default)
    /\ setup_ran' = TRUE
    /\ pc' = "dispatch"
    /\ UNCHANGED <<avars, args, fs_cfile, input, env, stdin, text_files, file_i,
                   outputs, dirs, attempted, done_files, out_dir, exit_code>>

\* Line 437 when neither --setup is given nor config.json is absent.
SkipSetup ==
    /\ pc = "configured"
    /\ ~(args.setup \/ fs_default.kind = "missing")
    /\ pc' = "dispatch"
    /\ UNCHANGED <<avars, args, fs_cfile, fs_default, input, env, stdin,
                   main_analyzer, setup_ran, text_files, file_i, outputs, dirs,
                   attempted, done_files, out_dir, exit_code>>

\* Line 442: a single input file is analysed into the -o directory itself.
AnalyzeSingle ==
    /\ pc = "dispatch"
    /\ input.kind = "file"
    /\ AnalyzeFile(input.entries[1], <<OutputName>>, "exit", file_i, "zero")
    /\ UNCHANGED <<words, i, male_adjectives, female_adjectives, scans, apc,
                   args, fs_cfile, fs_default, input, env, stdin,
                   main_analyzer, setup_ran, text_files>>

\* analyze_directory up to its loop (lines 384-396).
DirStart ==
    /\ pc = "dispatch"
    /\ input.kind = "dir"
    /\ text_files' = GlobTxt(input.entries)
    /\ IF GlobTxt(input.entries) = <<>>
       THEN /\ pc' = "exit" /\ exit_code' = "zero"
       ELSE /\ pc' = "dir_loop" /\ UNCHANGED exit_code
    /\ file_i' = 0
    /\ UNCHANGED <<avars, args, fs_cfile, fs_default, input, env, stdin,
                   main_analyzer, setup_ran, outputs, dirs, attempted,
                   done_files, out_dir>>

\* One pass of the loop of analyze_directory (lines 399-408).
DirNext ==
    /\ pc = "dir_loop"
    /\ file_i < Len(text_files)
    /\ LET text_file == PathJoin(<<InputDirName>>, text_files[file_i + 1].name)
           filename == Basename(text_file)
           file_output_dir == PathJoin(<<OutputName>>, SplitExtRoot(filename))
       IN  AnalyzeFile(text_files[file_i + 1], file_output_dir, "dir_loop", file_i + 1, exit_code)
    /\ UNCHANGED <<words, i, male_adjectives, female_adjectives, scans, apc,
                   args, fs_cfile, fs_default, input, env, stdin,
                   main_analyzer, setup_ran, text_files>>

\* The loop is over (line 410) and main returns.
DirDone ==
    /\ pc = "dir_loop"
    /\ file_i >= Len(text_files)
    /\ pc' = "exit"
    /\ exit_code' = "zero"
    /\ UNCHANGED <<avars, args, fs_cfile, fs_default, input, env, stdin,
                   main_analyzer, setup_ran, text_files, file_i, outputs, dirs,
                   attempted, done_files, out_dir>>

Next ==
    \/ MainMissingInput
    \/ MainConstruct
    \/ FirstTimeSetup
    \/ SkipSetup
    \/ AnalyzeSingle
    \/ DirStart
    \/ DirNext
    \/ DirDone

----------------------------------------------------------------------------
(* The analysis of one token list, iteration by iteration *)

\* he/r hao/a she/r huai/a de/u
Tokens == {Token("he", "r"), Token("she", "r"), Token("hao", "a"),
           Token("huai", "a"), Token("de", "u")}

TokenLists == UNION {[1..n -> Tokens] : n \in 0..MaxLen}

\* The settings of the worked example, with the window radius left open; -1
\* is a radius a settings file can give (load_config does not check it).
ExampleSettings(r) ==
    [male_keywords |-> {"he"}, female_keywords |-> {"she"},
     stopwords |-> {"de"}, adjective_pos_tags |-> {"a"},
     window_size |-> JInt(r), font_path |-> JStr("simhei.ttf")]

C1Tokens == <<Token("he", "r"), Token("hao", "a"), Token("she", "r"), Token("huai", "a")>>

NoInput == [kind |-> "missing", entries |-> <<>>]

\* No run of main is under way.
IdleMain ==
    /\ args = [config |-> FALSE, setup |-> FALSE]
    /\ fs_cfile = File("missing", JNull)
    /\ fs_default = File("missing", JNull)
    /\ input = NoInput
    /\ env = [font_ok |-> TRUE, save_ok |-> TRUE]
    /\ stdin = [male |-> <<>>, female |-> <<>>, stop |-> <<>>]
    /\ pc = "idle"
    /\ main_analyzer = InitSettings
    /\ setup_ran = FALSE
    /\ text_files = <<>>
    /\ file_i = 0
    /\ outputs = {}
    /\ dirs = {}
    /\ attempted = <<>>
    /\ done_files = <<>>
    /\ out_dir = <<>>
    /\ exit_code = "none"

InitAnalyze ==
    /\ words \in TokenLists
    /\ \E r \in (-1)..MaxRadius : self = ExampleSettings(r)
    /\ i = 0
    /\ male_adjectives = <<>>
    /\ female_adjectives = <<>>
    /\ scans = <<>>
    /\ result = NoResult
    /\ apc = "loop"
    /\ IdleMain

\* One pass of the loop body of analyze.
AnalyzeStep ==
    /\ apc = "loop"
    /\ i < Len(words)
    /\ LET acc == AnalyzeIter([male |-> male_adjectives,
                               female |-> female_adjectives,
                               scans |-> scans], words, i, self)
       IN  /\ male_adjectives' = acc.male
           /\ female_adjectives' = acc.female
           /\ scans' = acc.scans
    /\ i' = i + 1
    /\ UNCHANGED <<self, words, result, apc, mvars>>

\* The loop is over: the two lists are counted and returned (lines 254-257).
AnalyzeReturn ==
    /\ apc = "loop"
    /\ i >= Len(words)
    /\ result' = [male |-> Counter(male_adjectives),
                  female |-> Counter(female_adjectives)]
    /\ apc' = "done"
    /\ UNCHANGED <<self, words, i, male_adjectives, female_adjectives, scans, mvars>>

NextAnalyze == AnalyzeStep \/ AnalyzeReturn

SpecAnalyze == InitAnalyze /\ [][NextAnalyze]_vars

----------------------------------------------------------------------------
(* Runs of main *)

F_missing == File("missing", JNull)
F_garbage == File("garbage", JNull)
\* valid JSON that is no object
F_array == File("json", JList(<<>>))
F_full ==
    File("json", JObj(
        [male_keywords |-> JList(<<"he">>), female_keywords |-> JList(<<"she">>),
         stopwords |-> JList(<<"de">>), adjective_pos_tags |-> JList(<<"a">>),
         window_size |-> JInt(1), font_path |-> JStr("simhei.ttf")]))
\* keys left out take the defaults of config.get
F_partial ==
    File("json", JObj(
        [male_keywords |-> JList(<<"he", "father">>), window_size |-> JInt(2)]))
\* the second key has the wrong shape: set(5) raises after the first is assigned
F_badset ==
    File("json", JObj(
        [male_keywords |-> JList(<<"boy">>), female_keywords |-> JInt(5)]))
F_negwin ==
    File("json", JObj(
        [male_keywords |-> JList(<<"he">>), female_keywords |-> JList(<<"she">>),
         stopwords |-> JList(<<"de">>), adjective_pos_tags |-> JList(<<"a">>),
         window_size |-> JInt(-1), font_path |-> JStr("simhei.ttf")]))
F_strwin ==
    File("json", JObj(
        [male_keywords |-> JList(<<"he">>), female_keywords |-> JList(<<"she">>),
         stopwords |-> JList(<<"de">>), adjective_pos_tags |-> JList(<<"a">>),
         window_size |-> JStr("3"), font_path |-> JStr("simhei.ttf")]))

ConfigFiles == {F_missing, F_garbage, F_array, F_full, F_partial, F_badset,
                F_negwin, F_strwin}

N_a_txt == <<"a", ".", "t", "x", "t">>
N_b_txt == <<"b", ".", "t", "x", "t">>
N_a_b_txt == <<"a", ".", "b", ".", "t", "x", "t">>
N_a_md == <<"a", ".", "m", "d">>
N_hidden_txt == <<".", "t", "x", "t">>
N_a == <<"a">>

DirNames == {N_a_txt, N_b_txt, N_a_b_txt, N_a_md, N_hidden_txt}
SingleNames == {N_a_txt, N_a_b_txt, N_a_md, N_a}

Entry(name, readable, tagger_ok, tokens) ==
    [name |-> name, readable |-> readable, tagger_ok |-> tagger_ok, tokens |-> tokens]

\* A file is unreadable, or makes the tagger fail, or holds no text, or the
\* worked example, or a text with adjectives near male keywords only.
EntriesOf(name) ==
    {Entry(name, FALSE, TRUE, C1Tokens),
     Entry(name, TRUE, FALSE, C1Tokens),
     Entry(name, TRUE, TRUE, <<>>),
     Entry(name, TRUE, TRUE, C1Tokens),
     Entry(name, TRUE, TRUE, <<Token("he", "r"), Token("hao", "a")>>)}

DirEntries == UNION {EntriesOf(nm) : nm \in DirNames}

\* A directory listing: entries with distinct names, in the order glob meets them.
Listings ==
    {q \in UNION {[1..n -> DirEntries] : n \in 0..MaxFiles} :
        \A a, b \in DOMAIN q : a # b => q[a].name # q[b].name}

Inputs ==
    {NoInput}
    \cup {[kind |-> "file", entries |-> <<e>>] :
             e \in UNION {EntriesOf(nm) : nm \in SingleNames}}
    \cup {[kind |-> "dir", entries |-> q] : q \in Listings}

TypedLines ==
    [male : {<<>>, <<"gege">>}, female : {<<>>, <<"jiejie">>}, stop : {<<>>, <<"ne">>}]

StartMain ==
    /\ words = <<>>
    /\ i = 0
    /\ male_adjectives = <<>>
    /\ female_adjectives = <<>>
    /\ scans = <<>>
    /\ result = NoResult
    /\ apc = "idle"
    /\ self = InitSettings
    /\ pc = "start"
    /\ main_analyzer = InitSettings
    /\ setup_ran = FALSE
    /\ text_files = <<>>
    /\ file_i = 0
    /\ outputs = {}
    /\ dirs = {}
    /\ attempted = <<>>
    /\ done_files = <<>>
    /\ out_dir = <<>>
    /\ exit_code = "none"

\* Runs that vary the settings files, --setup, -c and the typed lines, on a
\* fixed input file or directory.
InitConfig ==
    /\ args \in [config : BOOLEAN, setup : BOOLEAN]
    /\ fs_cfile \in (IF args.config THEN ConfigFiles ELSE {F_missing})
    /\ fs_default \in ConfigFiles
    /\ stdin \in TypedLines
    /\ env \in [font_ok : {TRUE}, save_ok : BOOLEAN]
    /\ input \in {[kind |-> "file",
                   entries |-> <<Entry(N_a_txt, TRUE, TRUE, C1Tokens)>>],
                  [kind |-> "dir",
                   entries |-> <<Entry(N_a_txt, TRUE, TRUE, C1Tokens),
                                 Entry(N_b_txt, TRUE, TRUE, C1Tokens)>>]}

\* Runs that vary the input path and the renderer, without -c and --setup.
InitRun ==
    /\ args = [config |-> FALSE, setup |-> FALSE]
    /\ fs_cfile = F_missing
    /\ fs_default \in {F_full, F_missing}
    /\ stdin = [male |-> <<>>, female |-> <<>>, stop |-> <<>>]
    /\ env \in [font_ok : BOOLEAN, save_ok : {TRUE}]
    /\ input \in Inputs

Init == StartMain /\ (InitConfig \/ InitRun)

Spec == Init /\ [][Next]_vars

----------------------------------------------------------------------------
(* Claims about extract_adjectives and analyze *)

C1Case == apc = "done" /\ words = C1Tokens /\ self = ExampleSettings(1)

\* C1 as stated: with keywords he / she, adjective tag a and radius 1, the
\* tokens he/r hao/a she/r huai/a give male tally {hao: 1} and female tally
\* {huai: 1}.
C1_Original ==
    C1Case => /\ result.male = [w \in {"hao"} |-> 1]
              /\ result.female = [w \in {"huai"} |-> 1]

\* C1 amended: the same analysis gives male tally {hao: 1} and female tally
\* {hao: 1, huai: 1}; hao is one token to the left of she, inside its window.
C1_Amended ==
    C1Case => /\ result.male = [w \in {"hao"} |-> 1]
              /\ result.female = [w \in {"hao", "huai"} |-> 1]

C1_Witness == C1Case /\ Len(scans) = 2

Abs(x) == IF x >= 0 THEN x ELSE -x

\* The count a table holds for a word, 0 for a word it lacks.
Count(c, w) == IF w \in DOMAIN c THEN c[w] ELSE 0

\* The pairs (p, j) of the claim: token p is a keyword of the class, j # p,
\* |j - p| <= r, 0 <= j < n, token j is the adjective a.
ClaimPairs(ws, keys, tags, a, r) ==
    {pq \in (0..(Len(ws) - 1)) \X (0..(Len(ws) - 1)) :
        /\ ws[pq[1] + 1].word \in keys
        /\ pq[2] # pq[1]
        /\ Abs(pq[2] - pq[1]) <= r
        /\ ws[pq[2] + 1].word = a
        /\ ws[pq[2] + 1].pos \in tags}

\* C2: for every token list and radius r >= 0, analyze makes one window scan
\* per keyword occurrence, and the count of adjective a in the male (female)
\* tally is the number of pairs (p, j) with token p a male (female) keyword
\* and token j the adjective a within distance r of it.
C2_OneScanPerOccurrence ==
    (apc = "done" /\ self.window_size.v >= 0) =>
        \A a \in {tk.word : tk \in Tokens} :
              /\ Count(result.male, a) =
                    Cardinality(ClaimPairs(words, self.male_keywords,
                        self.adjective_pos_tags, a, self.window_size.v))
              /\ Count(result.female, a) =
                    Cardinality(ClaimPairs(words, self.female_keywords,
                        self.adjective_pos_tags, a, self.window_size.v))

\* C7: every window scan of extract_adjectives reads only indices j with
\* 0 <= j < n and never the keyword position p itself; for a radius r >= 0 it
\* reads, once each and in ascending order, exactly the j # p with |j - p| <= r
\* that lie inside the token list.
C7_WindowInBounds ==
    \A k \in DOMAIN scans :
        LET p == scans[k][1]
            idx == scans[k][2]
            r == self.window_size.v
            n == Len(words)
        IN  /\ \A m \in DOMAIN idx : 0 <= idx[m] /\ idx[m] < n /\ idx[m] # p
            /\ \A m \in DOMAIN idx : m > 1 => idx[m - 1] < idx[m]
            /\ r >= 0 =>
                 Range(idx) = {j \in 0..(n - 1) : j # p /\ Abs(j - p) <= r}

\* A scan whose window is cut at both ends of the token list.
C7_Witness ==
    \E k \in DOMAIN scans :
        /\ scans[k][1] - self.window_size.v < 0
        /\ scans[k][1] + self.window_size.v >= Len(words)
        /\ Len(scans[k][2]) = 2

----------------------------------------------------------------------------
(* Claims about the settings *)

\* The try block of load_config succeeds on this file.
Loads(file) == TryLoad(file, InitSettings).ok

\* The file the constructor reads first cannot be loaded.
FirstLoadFails == IF args.config THEN ~Loads(fs_cfile) ELSE ~Loads(fs_default)

\* C4 as stated: whenever loading the settings file fails, with or without
\* -c, construction ends with all six settings equal to the hardcoded defaults.
C4_Original ==
    (pc = "configured" /\ FirstLoadFails) => main_analyzer = HardcodedDefaults

\* C4 amended: when loading the settings file fails, construction still
\* terminates; if config.json beside the program cannot be loaded (it is the
\* file that failed, or it fails after a failed -c file) all six settings are
\* the hardcoded defaults; if a -c file fails and config.json loads, all six
\* settings are the ones config.json gives.
C4_Amended ==
    /\ (pc = "configured" /\ FirstLoadFails /\ ~Loads(fs_default))
          => main_analyzer = HardcodedDefaults
    /\ (pc = "configured" /\ FirstLoadFails /\ Loads(fs_default))
          => main_analyzer = TryLoad(fs_default, InitSettings).s
    /\ (pc = "exit" /\ exit_code = "nonzero" /\ input.kind # "missing")
          => attempted # <<>>

\* A -c file that fails half way, with no config.json to fall back to.
C4_Witness ==
    /\ pc = "configured"
    /\ args.config
    /\ fs_cfile = F_badset
    /\ fs_default = F_missing
    /\ main_analyzer = HardcodedDefaults

\* C9: in every analyzer state after construction the window radius is an
\* integer >= 0.
C9_RadiusNonNegative ==
    pc \in {"configured", "dispatch", "dir_loop"} =>
        /\ main_analyzer.window_size.t = "int"
        /\ main_analyzer.window_size.v >= 0

\* C10: when first-run setup has run and its save succeeded, the analysis
\* dispatched afterwards uses exactly the settings the setup ended with,
\* whether or not -c was given.
C10_AnalysisUsesSetup ==
    (setup_ran /\ env.save_ok /\ done_files # <<>>) => self = main_analyzer

----------------------------------------------------------------------------
(* Claims about the outputs *)

\* The last call of analyze_file returned.
LastReturned == attempted # <<>> /\ Len(done_files) = Len(attempted)

HasOutput(dir, name) == \E o \in outputs : o.dir = dir /\ o.name = name

\* C3: whatever the two tables are, analyze followed by visualize ends with
\* report.csv written; with both tables empty the CSV has no data row and
\* there is no comparison.png; comparison.png is written exactly when the
\* union of the adjectives is not empty. (Stated for runs whose font loads.)
C3_CsvAlways ==
    (LastReturned /\ env.font_ok) =>
        /\ HasOutput(out_dir, "report.csv")
        /\ (DOMAIN result.male = {} /\ DOMAIN result.female = {}) =>
              /\ \A o \in outputs :
                    (o.dir = out_dir /\ o.name = "report.csv") => o.data = <<>>
              /\ ~HasOutput(out_dir, "comparison.png")
        /\ HasOutput(out_dir, "comparison.png")
              <=> (DOMAIN result.male \cup DOMAIN result.female # {})

\* C5: in directory mode a failure on one file is only logged: the process
\* still ends with status zero, every matching file is handed to
\* analyze_file, and every readable one is analysed to the end.
C5_FilesIndependent ==
    (pc = "exit" /\ input.kind = "dir") =>
        /\ exit_code = "zero"
        /\ \A n \in DOMAIN input.entries :
              GlobMatch(input.entries[n].name) =>
                 /\ input.entries[n].name \in Range(attempted)
                 /\ input.entries[n].readable =>
                       input.entries[n].name \in Range(done_files)

\* The input file's name without its suffix.
WithoutSuffix(name) ==
    IF LastDot(name) > 1 THEN SubSeq(name, 1, LastDot(name) - 1) ELSE name

\* C6 as stated: in single-file mode as in directory mode every output of an
\* input file lies in <output>/<input-stem>/.
C6_Original ==
    \A o \in outputs : o.dir = <<OutputName, WithoutSuffix(o.src)>>

\* C6 amended: in directory mode every output of an input file lies in
\* <output>/<input-stem>/, the stem being the name without its .txt suffix,
\* and distinct input files get distinct directories; in single-file mode the
\* outputs lie in <output>/ itself.
C6_Amended ==
    /\ \A o \in outputs :
          /\ input.kind = "dir" =>
                o.dir = <<OutputName, SubSeq(o.src, 1, Len(o.src) - Len(DotTxt))>>
          /\ input.kind = "file" => o.dir = <<OutputName>>
          /\ o.name \in {"wordcloud.png", "comparison.png", "report.csv"}
    /\ \A o1, o2 \in outputs : o1.src # o2.src => o1.dir # o2.dir

\* A directory run that has written the outputs of a.txt and of a.b.txt.
C6_Witness ==
    /\ input.kind = "dir"
    /\ \E o1, o2 \in outputs :
          /\ o1.src = N_a_txt /\ o1.name = "report.csv"
          /\ o2.src = N_a_b_txt /\ o2.name = "report.csv"

\* C8: a written report.csv has one row per adjective of the union of the two
\* tables' keys, |union| rows in all, each row carrying that adjective's count
\* in either table, 0 where it is absent; the bar chart has the same
\* adjectives in the same order.
C8_CsvOverUnion ==
    \A o \in outputs :
        (LastReturned /\ o.dir = out_dir /\ o.name = "report.csv") =>
            LET U == DOMAIN result.male \cup DOMAIN result.female
            IN  /\ Len(o.data) = Cardinality(U)
                /\ \A w \in U :
                      Cardinality({n \in DOMAIN o.data : o.data[n][1] = w}) = 1
                /\ \A n \in DOMAIN o.data :
                      /\ o.data[n][2] = Count(result.male, o.data[n][1])
                      /\ o.data[n][3] = Count(result.female, o.data[n][1])
                /\ \A c \in outputs :
                      (c.dir = out_dir /\ c.name = "comparison.png") => c.data = o.data

\* A report with two rows, one of them for an adjective the male table lacks.
C8_Witness ==
    \E o \in outputs :
        /\ LastReturned /\ o.dir = out_dir /\ o.name = "report.csv"
        /\ Len(o.data) = 2
        /\ \E n \in DOMAIN o.data : o.data[n][2] = 0 /\ o.data[n][3] = 1

====
